---------------------------- MODULE Spec2Model ----------------------------
(***************************************************************************)
(* Model of the treemap extension (src/frontend/components/TreemapChart.tsx *)
(* and src/frontend/customProperties.ts).                                   *)
(*                                                                          *)
(* The component reads the table's records and four custom properties,     *)
(* aggregates the records into a tree inside a useMemo callback and then    *)
(* picks one of four views.  The aggregation keeps its running totals in    *)
(* plain JavaScript objects ({}), so property lookup goes through           *)
(* Object.prototype and Object.entries lists array-index keys first.  Both  *)
(* are modelled, together with the part of Object.prototype the callback    *)
(* itself can write to and later read back.                                 *)
(***************************************************************************)
EXTENDS Integers, Sequences, FiniteSets, TLC

VARIABLES
    records,                   \* useRecords(table): the table's record list
    customPropertyValueByKey,  \* useCustomProperties: title and the three fields
    errorState,                \* useCustomProperties: the property-loading error
    mounted,                   \* whether the component has rendered at least once
    memoDeps,                  \* dependency list stored by useMemo
    treemapData,               \* value stored by useMemo
    view,                      \* what the last render returned
    ObjectPrototype            \* keys of the properties added to Object.prototype

vars == <<records, customPropertyValueByKey, errorState, mounted, memoDeps,
          treemapData, view, ObjectPrototype>>

----------------------------------------------------------------------------
(* Bounds of the model.                                                     *)

MaxRecords == 3        \* longest record list explored
MaxArrayIndex == 10    \* largest canonical array index recognised among keys

----------------------------------------------------------------------------
(* JavaScript values that can end up in the tree: numbers, strings and      *)
(* undefined.  References to objects and functions carry in str the string  *)
(* that ToPrimitive gives them, which is all `+` ever uses of them.         *)

Undefined == [type |-> "undefined", num |-> 0, str |-> ""]
Num(n) == [type |-> "number", num |-> n, str |-> ""]
Str(s) == [type |-> "string", num |-> 0, str |-> s]
ObjectRef == [type |-> "object", num |-> 0, str |-> "[object Object]"]
FunctionRef(name) ==
    [type |-> "function", num |-> 0,
     str |-> "function " \o name \o "() { [native code] }"]

ToBoolean(v) ==
    CASE v.type = "undefined" -> FALSE
      [] v.type = "null"      -> FALSE
      [] v.type = "number"    -> v.num # 0
      [] v.type = "string"    -> v.str # ""
      [] OTHER                -> TRUE

ToStr(v) == IF v.type = "number" THEN ToString(v.num) ELSE v.str

\* a + b: numeric addition of two numbers, string concatenation otherwise
JSAdd(a, b) ==
    IF a.type = "number" /\ b.type = "number"
    THEN Num(a.num + b.num)
    ELSE Str(ToStr(a) \o ToStr(b))

\* Math.max(value, 0)
MathMax0(n) == IF n > 0 THEN n ELSE 0

----------------------------------------------------------------------------
(* Cell values handed out by the host: null, a number, a string, or an      *)
(* object (a select choice {name, color}); keys lists the object's keys.    *)

CellNull == [type |-> "null", num |-> 0, str |-> "", keys |-> {}, name |-> "", color |-> ""]
CellNum(n) == [type |-> "number", num |-> n, str |-> "", keys |-> {}, name |-> "", color |-> ""]
CellStr(s) == [type |-> "string", num |-> 0, str |-> s, keys |-> {}, name |-> "", color |-> ""]
CellTag(n, c) ==
    [type |-> "object", num |-> 0, str |-> "", keys |-> {"name", "color"}, name |-> n, color |-> c]
CellNamed(n) ==
    [type |-> "object", num |-> 0, str |-> "", keys |-> {"name"}, name |-> n, color |-> ""]
CellColorOnly(c) ==
    [type |-> "object", num |-> 0, str |-> "", keys |-> {"color"}, name |-> "", color |-> c]

NoField == "(unset)"

\* record.getCellValue(field)
getCellValue(record, field) == record[field]

\* record.getCellValueAsString(field)
getCellValueAsString(record, field) ==
    LET cell == record[field] IN
    CASE cell.type = "string" -> cell.str
      [] cell.type = "number" -> ToString(cell.num)
      [] cell.type = "object" -> IF "name" \in cell.keys THEN cell.name ELSE ""
      [] OTHER                -> ""

\* colorUtils.getHexForColor(color) ?? undefined
getHexForColor(color) ==
    CASE color = "blue" -> Str("#2d7ff9")
      [] color = "red"  -> Str("#f82b60")
      [] OTHER          -> Undefined

----------------------------------------------------------------------------
(* Plain objects.  An object literal {} is the list of its own properties   *)
(* in insertion order; its prototype is Object.prototype, which holds the   *)
(* built-in methods, the __proto__ accessor and the properties added to it  *)
(* at run time.  Of the latter only the keys are kept (ObjectPrototype):    *)
(* each is an item { value, color } whose contents never reach a tree,      *)
(* since a read of it either adds to its .value or turns it into the string *)
(* "[object Object]".                                                       *)

BuiltinKeys ==
    {"constructor", "toString", "valueOf", "hasOwnProperty",
     "isPrototypeOf", "propertyIsEnumerable", "toLocaleString"}

\* Object.prototype.constructor is the function Object; the others are named
\* after their key.
BuiltinRef(key) == FunctionRef(IF key = "constructor" THEN "Object" ELSE key)

EmptyPrototype == {}

HasOwn(obj, key) == \E i \in 1..Len(obj) : obj[i].key = key
OwnIndex(obj, key) == CHOOSE i \in 1..Len(obj) : obj[i].key = key

\* Where obj[key] is found for an object whose prototype is Object.prototype.
Slot(obj, proto, key) ==
    IF HasOwn(obj, key) THEN "own"
    ELSE IF key = "__proto__" THEN "accessor"
    ELSE IF key \in BuiltinKeys THEN "builtin"
    ELSE IF key \in proto THEN "inherited"
    ELSE "absent"

\* A canonical array index: the decimal form of a non-negative integer.
IsArrayIndex(key) == \E n \in 0..MaxArrayIndex : ToString(n) = key

RECURSIVE IndexEntries(_, _)
IndexEntries(obj, n) ==
    IF n > MaxArrayIndex THEN <<>>
    ELSE SelectSeq(obj, LAMBDA e : e.key = ToString(n)) \o IndexEntries(obj, n + 1)

\* Object.entries(obj): own enumerable properties, array indices first in
\* ascending numeric order, then the other string keys in insertion order.
ObjectEntries(obj) ==
    IndexEntries(obj, 0) \o SelectSeq(obj, LAMBDA e : ~IsArrayIndex(e.key))

----------------------------------------------------------------------------
(* Per-record derivations shared by both branches.                          *)

\* record.getCellValueAsString(labelField) || "Unnamed"
Label(record, labelField) ==
    LET s == getCellValueAsString(record, labelField) IN
    IF s # "" THEN s ELSE "Unnamed"

\* typeof rawValue === "number" ? rawValue : 0
Value(record, valueField) ==
    LET rawValue == getCellValue(record, valueField) IN
    IF rawValue.type = "number" THEN rawValue.num ELSE 0

HasName(groupValue) == groupValue.type = "object" /\ "name" \in groupValue.keys

GroupName(groupValue) ==
    IF HasName(groupValue) THEN groupValue.name
    ELSE IF groupValue.type = "string" THEN groupValue.str
    ELSE "Ungrouped"

GroupColor(groupValue) ==
    IF HasName(groupValue) /\ "color" \in groupValue.keys /\ groupValue.color # ""
    THEN getHexForColor(groupValue.color)
    ELSE Undefined

----------------------------------------------------------------------------
(* Ungrouped branch.                                                        *)

\* aggregated[label]
AggregatedGet(aggregated, proto, label) ==
    LET slot == Slot(aggregated, proto, label) IN
    CASE slot = "own"       -> aggregated[OwnIndex(aggregated, label)].val
      [] slot = "accessor"  -> ObjectRef
      [] slot = "builtin"   -> BuiltinRef(label)
      [] slot = "inherited" -> ObjectRef
      [] OTHER              -> Undefined

\* aggregated[label] = v, for a primitive v: an own property is overwritten,
\* the __proto__ setter ignores a primitive, anything else becomes a new own
\* property at the end of the insertion order.
AggregatedSet(aggregated, label, v) ==
    IF HasOwn(aggregated, label)
    THEN [aggregated EXCEPT ![OwnIndex(aggregated, label)].val = v]
    ELSE IF label = "__proto__" THEN aggregated
    ELSE Append(aggregated, [key |-> label, val |-> v])

\* if (!aggregated[label]) aggregated[label] = 0
AggregatedInit(aggregated, proto, label) ==
    IF ~ToBoolean(AggregatedGet(aggregated, proto, label))
    THEN AggregatedSet(aggregated, label, Num(0))
    ELSE aggregated

\* aggregated[label] += add
AggregatedAdd(aggregated, proto, label, add) ==
    AggregatedSet(aggregated, label,
                  JSAdd(AggregatedGet(aggregated, proto, label), Num(add)))

AggregateRecord(aggregated, proto, record, labelField, valueField) ==
    AggregatedAdd(AggregatedInit(aggregated, proto, Label(record, labelField)),
                  proto, Label(record, labelField),
                  MathMax0(Value(record, valueField)))

RECURSIVE AggregateFrom(_, _, _, _, _, _)
AggregateFrom(aggregated, proto, recs, i, labelField, valueField) ==
    IF i > Len(recs) THEN aggregated
    ELSE AggregateFrom(
             AggregateRecord(aggregated, proto, recs[i], labelField, valueField),
             proto, recs, i + 1, labelField, valueField)

LeafNodes(entries) ==
    [i \in 1..Len(entries) |-> [id |-> entries[i].key, value |-> entries[i].val]]

UngroupedChildren(recs, proto, labelField, valueField) ==
    LeafNodes(ObjectEntries(
        AggregateFrom(<<>>, proto, recs, 1, labelField, valueField)))

----------------------------------------------------------------------------
(* Grouped branch.  groups is the own-property list of the outer object;    *)
(* each value is the own-property list of a group's items.  The forEach     *)
(* state also carries the keys added to Object.prototype, which a group     *)
(* named "__proto__" makes the callback write to, and whether a TypeError   *)
(* was thrown.  Writes that land on a built-in function, on the property    *)
(* "value" of Object.prototype or inside an item that lives on              *)
(* Object.prototype change nothing a later lookup of groups[groupName],     *)
(* groups[groupName][label] or aggregated[label] can tell apart, and are    *)
(* not kept.                                                                *)

\* Object.prototype[label] = { value: 0, color: groupColor }
PrototypeDefine(proto, label) == proto \cup {label}

\* groups[groupName][label], for groups[groupName] an object literal of this
\* call (the g-th own property of groups) and inner the place the item is
\* found: created if absent, then its value raised by add.
AddToItem(acc, groups, g, inner, groupColor, label, add) ==
    CASE inner = "own" ->
           [acc EXCEPT !.groups =
               [groups EXCEPT ![g].val[OwnIndex(groups[g].val, label)].val.value =
                                  JSAdd(@, Num(add))]]
      [] inner = "absent" ->
           [acc EXCEPT !.groups =
               [groups EXCEPT ![g].val =
                   Append(@, [key |-> label,
                              val |-> [value |-> JSAdd(Num(0), Num(add)),
                                      color |-> groupColor]])]]
      [] OTHER ->
           \* the item found is one on Object.prototype, Object.prototype
           \* itself ("__proto__") or a built-in method: its .value is raised
           [acc EXCEPT !.groups = groups]

AddToGroup(acc, groups, g, groupColor, label, add) ==
    AddToItem(acc, groups, g, Slot(groups[g].val, acc.proto, label),
              groupColor, label, add)

\* groups["__proto__"] is Object.prototype: the item is looked up, created
\* and updated there.
AddToObjectPrototype(acc, label) ==
    IF label = "__proto__" THEN
        \* Object.prototype.__proto__ is null; assigning an object to it throws
        [acc EXCEPT !.threw = TRUE]
    ELSE IF label \in BuiltinKeys \/ label \in acc.proto THEN acc
    ELSE [acc EXCEPT !.proto = PrototypeDefine(acc.proto, label)]

\* outer is the place groups[groupName] is found
AddRecord(acc, outer, groupName, groupColor, label, add) ==
    CASE outer = "own" ->
           AddToGroup(acc, acc.groups, OwnIndex(acc.groups, groupName),
                      groupColor, label, add)
      [] outer = "absent" ->
           \* groups[groupName] = {}
           AddToGroup(acc, Append(acc.groups, [key |-> groupName, val |-> <<>>]),
                      Len(acc.groups) + 1, groupColor, label, add)
      [] outer = "accessor" ->
           AddToObjectPrototype(acc, label)
      [] OTHER ->
           \* groups[groupName] is a built-in method or an item inherited from
           \* Object.prototype: nothing of groups changes
           acc

GroupRecord(acc, record, labelField, valueField, groupByField) ==
    IF acc.threw THEN acc
    ELSE AddRecord(acc,
                   Slot(acc.groups, acc.proto,
                        GroupName(getCellValue(record, groupByField))),
                   GroupName(getCellValue(record, groupByField)),
                   GroupColor(getCellValue(record, groupByField)),
                   Label(record, labelField),
                   MathMax0(Value(record, valueField)))

RECURSIVE GroupFrom(_, _, _, _, _, _)
GroupFrom(acc, recs, i, labelField, valueField, groupByField) ==
    IF i > Len(recs) THEN acc
    ELSE GroupFrom(GroupRecord(acc, recs[i], labelField, valueField, groupByField),
                   recs, i + 1, labelField, valueField, groupByField)

ItemNodes(entries) ==
    [i \in 1..Len(entries) |->
        [id |-> entries[i].key,
         value |-> entries[i].val.value,
         color |-> entries[i].val.color]]

ItemChildren(items) == ItemNodes(ObjectEntries(items))

\* { id: name, color: itemChildren[0]?.color, children: itemChildren }
GroupNode(name, itemChildren) ==
    [id |-> name,
     color |-> IF Len(itemChildren) > 0 THEN itemChildren[1].color ELSE Undefined,
     children |-> itemChildren]

GroupNodes(entries) ==
    [i \in 1..Len(entries) |-> GroupNode(entries[i].key, ItemChildren(entries[i].val))]

GroupedChildren(groups) == GroupNodes(ObjectEntries(groups))

----------------------------------------------------------------------------
(* The useMemo callback.  The result says whether the callback threw, the   *)
(* tree it returned otherwise, and Object.prototype as it leaves it.        *)

EarlyReturn(recs, labelField, valueField) ==
    labelField = NoField \/ valueField = NoField \/ Len(recs) = 0

\* A variant of EmptyRoot with a fixed root id in place of the title.
EmptyRootNamedRoot(title) == [id |-> "root", children |-> <<>>]

\* { id: title, children: [] }
EmptyRoot(title) == [id |-> title, children |-> <<>>]

GroupedResult(title, acc) ==
    [threw |-> acc.threw,
     tree |-> [id |-> title,
               children |-> IF acc.threw THEN <<>> ELSE GroupedChildren(acc.groups)],
     proto |-> acc.proto]

TreemapData(recs, labelField, valueField, groupByField, title, proto) ==
    IF EarlyReturn(recs, labelField, valueField) THEN
        [threw |-> FALSE, tree |-> EmptyRoot(title), proto |-> proto]
    ELSE IF groupByField # NoField THEN
        GroupedResult(title,
            GroupFrom([groups |-> <<>>, proto |-> proto, threw |-> FALSE],
                      recs, 1, labelField, valueField, groupByField))
    ELSE
        [threw |-> FALSE,
         tree |-> [id |-> title,
                   children |-> UngroupedChildren(recs, proto, labelField, valueField)],
         proto |-> proto]

----------------------------------------------------------------------------
(* Custom properties (customProperties.ts): the table's fields, which of    *)
(* them each property accepts, and the defaults.                            *)

Fields ==
    << [id |-> "Name", type |-> "singleLineText"],
       [id |-> "Revenue", type |-> "number"],
       [id |-> "Sector", type |-> "singleSelect"] >>

isTextField(field) == field.type \in {"singleLineText", "formula", "singleSelect"}

isNumberField(field) ==
    field.type \in {"number", "currency", "percent", "count", "rollup", "formula"}

isCategoryField(field) == field.type \in {"singleSelect", "singleLineText"}

textFields == SelectSeq(Fields, isTextField)
numberFields == SelectSeq(Fields, isNumberField)
categoryFields == SelectSeq(Fields, isCategoryField)

\* fields[0], undefined for an empty list
First(fields) == IF Len(fields) > 0 THEN fields[1].id ELSE NoField

FieldIds(fields) == {fields[i].id : i \in 1..Len(fields)}

DefaultTitle == "Company revenue map"

getCustomProperties ==
    [title |-> DefaultTitle,
     labelField |-> First(textFields),
     valueField |-> First(numberFields),
     groupByField |-> First(categoryFields)]

\* customPropertyValueByKey.title || "Company revenue map"
Title(props) == IF props.title # "" THEN props.title ELSE DefaultTitle

----------------------------------------------------------------------------
(* One render of TreemapChart: the useMemo step, then the view.             *)

NoError == [present |-> FALSE, message |-> ""]
Error(message) == [present |-> TRUE, message |-> message]

Deps(recs, props) ==
    <<recs, props.labelField, props.valueField, props.groupByField, Title(props)>>

\* The JSX branches after the useMemo call.
View(err, props, recs) ==
    IF err.present THEN
        [kind |-> "error",
         message |-> "Error loading custom properties: " \o err.message,
         missing |-> <<>>]
    ELSE IF props.labelField = NoField \/ props.valueField = NoField THEN
        [kind |-> "config",
         message |-> "Configuration Required",
         missing |-> (IF props.labelField = NoField THEN <<"Label Field">> ELSE <<>>)
                     \o (IF props.valueField = NoField THEN <<"Value Field">> ELSE <<>>)]
    ELSE IF Len(recs) = 0 THEN
        [kind |-> "empty", message |-> "No records found in the table.", missing |-> <<>>]
    ELSE
        [kind |-> "chart", message |-> "", missing |-> <<>>]

\* An exception thrown while rendering leaves nothing on screen.
Crashed == [kind |-> "crashed", message |-> "TypeError", missing |-> <<>>]
NotRendered == [kind |-> "none", message |-> "", missing |-> <<>>]

\* Rendered at least once, and no render has thrown.
Alive == mounted /\ view.kind # "crashed"

\* useMemo runs the callback on the first render and whenever a dependency
\* differs from the stored one; otherwise it hands back the stored value.
\* The record list is compared by content: every action that delivers a new
\* list delivers a different one.
Memoize(recs, props, err, deps, result) ==
    IF mounted /\ deps = memoDeps THEN
        [memoDeps |-> memoDeps, treemapData |-> treemapData,
         proto |-> ObjectPrototype, view |-> View(err, props, recs)]
    ELSE IF result.threw THEN
        [memoDeps |-> memoDeps, treemapData |-> treemapData,
         proto |-> result.proto, view |-> Crashed]
    ELSE
        [memoDeps |-> deps, treemapData |-> result.tree,
         proto |-> result.proto, view |-> View(err, props, recs)]

Render(recs, props, err) ==
    Memoize(recs, props, err, Deps(recs, props),
            TreemapData(recs, props.labelField, props.valueField,
                        props.groupByField, Title(props), ObjectPrototype))

Commit(recs, props, err, r) ==
    /\ records' = recs
    /\ customPropertyValueByKey' = props
    /\ errorState' = err
    /\ mounted' = TRUE
    /\ memoDeps' = r.memoDeps
    /\ treemapData' = r.treemapData
    /\ ObjectPrototype' = r.proto
    /\ view' = r.view

\* The host delivers new inputs and the component renders with them.
Rerender(recs, props, err) ==
    /\ Alive
    /\ Commit(recs, props, err, Render(recs, props, err))

----------------------------------------------------------------------------
(* Inputs explored.                                                          *)

Rec(name, revenue, sector) == [Name |-> name, Revenue |-> revenue, Sector |-> sector]

G1 == CellTag("G1", "blue")
G2 == CellNamed("G2")

\* Records of the table at mount time.
TableRecords ==
    { Rec(CellStr("A"), CellNum(10), G1),
      Rec(CellStr("A"), CellNum(5), G1),
      Rec(CellStr("B"), CellNum(-3), G2),
      Rec(CellNull, CellNull, CellNull),
      Rec(CellStr("10"), CellNum(5), CellStr("10")),
      Rec(CellStr("2"), CellNum(10), CellStr("2")),
      Rec(CellStr("__proto__"), CellNum(5), CellStr("G1")),
      Rec(CellStr("constructor"), CellNum(5), G2),
      Rec(CellStr("A"), CellNum(5), CellStr("__proto__")),
      Rec(CellNull, CellNum(5), CellStr("constructor")),
      Rec(CellStr("__proto__"), CellNum(5), CellStr("__proto__")),
      Rec(CellStr("B"), CellStr("n/a"), CellColorOnly("red")),
      Rec(CellStr("2"), CellNum(5), CellStr("10")),
      Rec(CellStr("Unnamed"), CellNum(5), CellStr("Ungrouped")) }

\* Records created while the component is mounted.
LiveRecords ==
    { Rec(CellStr("A"), CellNum(10), G1),
      Rec(CellStr("B"), CellNum(-3), G2),
      Rec(CellNull, CellNull, CellNull),
      Rec(CellStr("A"), CellNum(5), CellStr("__proto__")) }

RECURSIVE SeqsUpTo(_, _)
SeqsUpTo(S, n) ==
    IF n = 0 THEN {<<>>}
    ELSE LET shorter == SeqsUpTo(S, n - 1) IN
         shorter \cup {Append(s, x) : s \in {t \in shorter : Len(t) = n - 1}, x \in S}

Titles == {"", "Sales"}
Errors == {NoError, Error("Invalid field")}

LabelChoices == FieldIds(textFields) \cup {NoField}
ValueChoices == FieldIds(numberFields) \cup {NoField}
GroupChoices == FieldIds(categoryFields) \cup {NoField}

----------------------------------------------------------------------------
(* Actions.                                                                  *)

\* First render.
Mount ==
    /\ ~mounted
    /\ Commit(records, customPropertyValueByKey, errorState,
              Render(records, customPropertyValueByKey, errorState))

RecordCreated(r) ==
    /\ Len(records) < MaxRecords
    /\ Rerender(Append(records, r), customPropertyValueByKey, errorState)

RecordDeleted(i) ==
    /\ i \in 1..Len(records)
    /\ Rerender(SubSeq(records, 1, i - 1) \o SubSeq(records, i + 1, Len(records)),
                customPropertyValueByKey, errorState)

SetTitle(t) ==
    /\ t # customPropertyValueByKey.title
    /\ Rerender(records, [customPropertyValueByKey EXCEPT !.title = t], errorState)

SetLabelField(f) ==
    /\ f # customPropertyValueByKey.labelField
    /\ Rerender(records, [customPropertyValueByKey EXCEPT !.labelField = f], errorState)

SetValueField(f) ==
    /\ f # customPropertyValueByKey.valueField
    /\ Rerender(records, [customPropertyValueByKey EXCEPT !.valueField = f], errorState)

SetGroupByField(f) ==
    /\ f # customPropertyValueByKey.groupByField
    /\ Rerender(records, [customPropertyValueByKey EXCEPT !.groupByField = f], errorState)

SetErrorState(e) ==
    /\ e # errorState
    /\ Rerender(records, customPropertyValueByKey, e)

Unrendered ==
    /\ mounted = FALSE
    /\ memoDeps = <<<<>>, NoField, NoField, NoField, "">>
    /\ treemapData = EmptyRoot("")
    /\ view = NotRendered
    /\ ObjectPrototype = EmptyPrototype

\* The component before its first render, on an empty table with the
\* default properties.
Init ==
    /\ records = <<>>
    /\ customPropertyValueByKey = getCustomProperties
    /\ errorState = NoError
    /\ Unrendered

Next ==
    \/ Mount
    \/ \E r \in LiveRecords : RecordCreated(r)
    \/ \E i \in 1..MaxRecords : RecordDeleted(i)
    \/ \E t \in Titles : SetTitle(t)
    \/ \E f \in LabelChoices : SetLabelField(f)
    \/ \E f \in ValueChoices : SetValueField(f)
    \/ \E f \in GroupChoices : SetGroupByField(f)
    \/ \E e \in Errors : SetErrorState(e)

Spec == Init /\ [][Next]_vars

\* The component before its first render, on any table content and any
\* property values.
InitAgg ==
    /\ records \in SeqsUpTo(TableRecords, MaxRecords)
    /\ customPropertyValueByKey \in
           [title : Titles, labelField : {"Name", NoField},
            valueField : {"Revenue", NoField}, groupByField : {"Sector", NoField}]
    /\ errorState \in Errors
    /\ Unrendered

NextAgg == Mount

SpecAgg == InitAgg /\ [][NextAgg]_vars


----------------------------------------------------------------------------
(* Vocabulary of the properties below.  None of it models code: it restates *)
(* what the specification says the tree should be, from the inputs alone.   *)

curLabelField == customPropertyValueByKey.labelField
curValueField == customPropertyValueByKey.valueField
curGroupByField == customPropertyValueByKey.groupByField

\* The last render produced a tree from a non-empty, fully configured input.
Aggregated ==
    /\ mounted
    /\ view.kind # "crashed"
    /\ curLabelField # NoField
    /\ curValueField # NoField
    /\ Len(records) > 0

UngroupedMode == Aggregated /\ curGroupByField = NoField
GroupedMode == Aggregated /\ curGroupByField # NoField

RecordIndices == 1..Len(records)

\* Label and group a record should be filed under.
ExpectedLabel(i) ==
    IF getCellValueAsString(records[i], curLabelField) = ""
    THEN "Unnamed"
    ELSE getCellValueAsString(records[i], curLabelField)

ExpectedGroup(i) ==
    LET cell == records[i][curGroupByField] IN
    CASE cell.type = "object" /\ "name" \in cell.keys -> cell.name
      [] cell.type = "string" -> cell.str
      [] OTHER -> "Ungrouped"

\* max(rawValue, 0) for a numeric cell, 0 for any other cell.
Contribution(i) ==
    LET cell == records[i][curValueField] IN
    IF cell.type = "number" /\ cell.num > 0 THEN cell.num ELSE 0

RECURSIVE SumSeq(_)
SumSeq(s) == IF s = <<>> THEN 0 ELSE s[1] + SumSeq(Tail(s))

\* Total contribution of the records whose index is in I.
TotalOf(I) ==
    SumSeq([i \in RecordIndices |-> IF i \in I THEN Contribution(i) ELSE 0])

Ids(nodes) == [i \in 1..Len(nodes) |-> nodes[i].id]

RECURSIVE FirstSeen(_)
FirstSeen(s) ==
    IF s = <<>> THEN <<>>
    ELSE LET front == FirstSeen(SubSeq(s, 1, Len(s) - 1))
             last == s[Len(s)]
         IN  IF \E i \in 1..Len(front) : front[i] = last
             THEN front
             ELSE Append(front, last)

NoDuplicateIds(nodes) ==
    \A i, j \in 1..Len(nodes) : nodes[i].id = nodes[j].id => i = j

IsCount(v) == v.type = "number" /\ v.num >= 0

LeafTotal(leaves) == SumSeq([i \in 1..Len(leaves) |-> leaves[i].value.num])

SameLabel(i) == {j \in RecordIndices : ExpectedLabel(j) = ExpectedLabel(i)}
SameGroup(i) == {j \in RecordIndices : ExpectedGroup(j) = ExpectedGroup(i)}

\* Keys that an object literal inherits from Object.prototype at start-up.
PrototypeKeys == BuiltinKeys \cup {"__proto__"}

\* No label, and under grouping no group name, is a key of Object.prototype.
PlainKeys ==
    /\ \A i \in RecordIndices : ExpectedLabel(i) \notin PrototypeKeys
    /\ curGroupByField # NoField =>
           \A i \in RecordIndices : ExpectedGroup(i) \notin PrototypeKeys

\* No label, and under grouping no group name, is a canonical array index.
NoIndexKeys ==
    /\ \A i \in RecordIndices : ~IsArrayIndex(ExpectedLabel(i))
    /\ curGroupByField # NoField =>
           \A i \in RecordIndices : ~IsArrayIndex(ExpectedGroup(i))


----------------------------------------------------------------------------
(* C1: without a group field, the values of the root's leaves add up to the *)
(* sum of max(rawValue, 0) over the records whose value cell is a number;   *)
(* other records add 0.                                                     *)
C1_UngroupedTotal ==
    UngroupedMode =>
        /\ \A k \in 1..Len(treemapData.children) :
               treemapData.children[k].value.type = "number"
        /\ LeafTotal(treemapData.children) = TotalOf(RecordIndices)

(* C1, for labels that are not keys of Object.prototype: the total holds.   *)
C1_PlainLabelsTotal == (Aggregated /\ PlainKeys) => C1_UngroupedTotal

(* C2: no two children of the root share an id, no two leaves of one group  *)
(* share an id, and the records with one label (and one group) are all      *)
(* combined into the single leaf carrying that label.                       *)
C2_NoDuplicates ==
    /\ UngroupedMode =>
           /\ NoDuplicateIds(treemapData.children)
           /\ \A i \in RecordIndices :
                  \E k \in 1..Len(treemapData.children) :
                      /\ treemapData.children[k].id = ExpectedLabel(i)
                      /\ treemapData.children[k].value = Num(TotalOf(SameLabel(i)))
    /\ GroupedMode =>
           /\ NoDuplicateIds(treemapData.children)
           /\ \A g \in 1..Len(treemapData.children) :
                  NoDuplicateIds(treemapData.children[g].children)
           /\ \A i \in RecordIndices :
                  \E g \in 1..Len(treemapData.children) :
                      /\ treemapData.children[g].id = ExpectedGroup(i)
                      /\ \E k \in 1..Len(treemapData.children[g].children) :
                             /\ treemapData.children[g].children[k].id = ExpectedLabel(i)
                             /\ treemapData.children[g].children[k].value =
                                    Num(TotalOf(SameLabel(i) \cap SameGroup(i)))

(* C2, for labels and groups that are not keys of Object.prototype.         *)
C2_PlainKeysNoDuplicates == (Aggregated /\ PlainKeys) => C2_NoDuplicates

(* C2, the part about ids alone: ids are never repeated among siblings.     *)
C2_UniqueIds ==
    Aggregated =>
        /\ NoDuplicateIds(treemapData.children)
        /\ curGroupByField # NoField =>
               \A g \in 1..Len(treemapData.children) :
                   NoDuplicateIds(treemapData.children[g].children)

(* C3: with the label field unset, the value field unset or no records,     *)
(* the tree is exactly {id: rootTitle, children: []}, whatever the group    *)
(* field and the records are.                                               *)
C3_EmptyRoot ==
    (mounted /\ (curLabelField = NoField \/ curValueField = NoField \/ records = <<>>)) =>
        /\ view.kind # "crashed"
        /\ DOMAIN treemapData = {"id", "children"}
        /\ treemapData.id =
               (IF customPropertyValueByKey.title = ""
                THEN "Company revenue map"
                ELSE customPropertyValueByKey.title)
        /\ treemapData.children = <<>>

C3_Witness ==
    /\ mounted
    /\ curLabelField = NoField
    /\ curValueField # NoField
    /\ curGroupByField # NoField
    /\ Len(records) = 2
    /\ customPropertyValueByKey.title = "Sales"
    /\ treemapData = [id |-> "Sales", children |-> <<>>]

(* C4: every leaf of the tree, grouped or not, has a value >= 0.            *)
C4_LeavesNonNegative ==
    /\ UngroupedMode =>
           \A k \in 1..Len(treemapData.children) :
               IsCount(treemapData.children[k].value)
    /\ GroupedMode =>
           \A g \in 1..Len(treemapData.children) :
               \A k \in 1..Len(treemapData.children[g].children) :
                   IsCount(treemapData.children[g].children[k].value)

(* C4, for labels and groups that are not keys of Object.prototype.         *)
C4_PlainKeysNonNegative == (Aggregated /\ PlainKeys) => C4_LeavesNonNegative


(* C5: with a group field, each record sits under the group node named by   *)
(* its group cell: the tag's name, the plain string, or "Ungrouped" (with   *)
(* no color) for anything else, a missing cell included; no record is lost  *)
(* on account of its group cell.                                            *)
C5_GroupResolution ==
    GroupedMode =>
        \A i \in RecordIndices :
            \E g \in 1..Len(treemapData.children) :
                /\ treemapData.children[g].id = ExpectedGroup(i)
                /\ ExpectedGroup(i) = "Ungrouped" =>
                       treemapData.children[g].color = Undefined
                /\ \E k \in 1..Len(treemapData.children[g].children) :
                       treemapData.children[g].children[k].id = ExpectedLabel(i)

(* C5, for labels and groups that are not keys of Object.prototype.         *)
C5_PlainKeysGroupResolution == (Aggregated /\ PlainKeys) => C5_GroupResolution

(* C6: a record with a missing label is counted in the leaf "Unnamed" of    *)
(* its container (the root, or its group when grouping), all such records   *)
(* in that one leaf, and no leaf has the empty string as id.                *)
C6_UnnamedLeaf ==
    /\ UngroupedMode =>
           /\ \A k \in 1..Len(treemapData.children) : treemapData.children[k].id # ""
           /\ \A i \in RecordIndices :
                  getCellValueAsString(records[i], curLabelField) = "" =>
                      \E k \in 1..Len(treemapData.children) :
                          /\ treemapData.children[k].id = "Unnamed"
                          /\ treemapData.children[k].value = Num(TotalOf(SameLabel(i)))
    /\ GroupedMode =>
           /\ \A g \in 1..Len(treemapData.children) :
                  \A k \in 1..Len(treemapData.children[g].children) :
                      treemapData.children[g].children[k].id # ""
           /\ \A i \in RecordIndices :
                  getCellValueAsString(records[i], curLabelField) = "" =>
                      \E g \in 1..Len(treemapData.children) :
                          /\ treemapData.children[g].id = ExpectedGroup(i)
                          /\ \E k \in 1..Len(treemapData.children[g].children) :
                                 /\ treemapData.children[g].children[k].id = "Unnamed"
                                 /\ treemapData.children[g].children[k].value =
                                        Num(TotalOf(SameLabel(i) \cap SameGroup(i)))

(* C6, for groups that are not keys of Object.prototype.                    *)
C6_PlainKeysUnnamedLeaf == (Aggregated /\ PlainKeys) => C6_UnnamedLeaf

(* C7: exactly one of four views is shown: the error message, carrying the  *)
(* error's text, whenever there is a property-loading error; else the       *)
(* configuration prompt listing exactly the unset fields among label and    *)
(* value; else the no-records message for an empty list; else the chart.    *)
C7_ViewSelection ==
    mounted =>
        /\ view.kind \in {"error", "config", "empty", "chart"}
        /\ errorState.present =>
               /\ view.kind = "error"
               /\ view.message = "Error loading custom properties: " \o errorState.message
        /\ (~errorState.present /\ (curLabelField = NoField \/ curValueField = NoField)) =>
               /\ view.kind = "config"
               /\ \A name \in {"Label Field", "Value Field"} :
                      (\E k \in 1..Len(view.missing) : view.missing[k] = name) <=>
                          \/ name = "Label Field" /\ curLabelField = NoField
                          \/ name = "Value Field" /\ curValueField = NoField
        /\ (~errorState.present /\ curLabelField # NoField /\ curValueField # NoField
                /\ records = <<>>) => view.kind = "empty"
        /\ (~errorState.present /\ curLabelField # NoField /\ curValueField # NoField
                /\ records # <<>>) => view.kind = "chart"

(* C7, whenever the render returns at all.                                  *)
C7_ViewSelectionUnlessThrown == view.kind # "crashed" => C7_ViewSelection

(* C8: the root's children (and each group's children) list the distinct    *)
(* labels (groups) in the order of first occurrence in the record list.     *)
C8_FirstSeenOrder ==
    /\ UngroupedMode =>
           Ids(treemapData.children) =
               FirstSeen([i \in RecordIndices |-> ExpectedLabel(i)])
    /\ GroupedMode =>
           /\ Ids(treemapData.children) =
                  FirstSeen([i \in RecordIndices |-> ExpectedGroup(i)])
           /\ \A g \in 1..Len(treemapData.children) :
                  Ids(treemapData.children[g].children) =
                      FirstSeen(
                          [k \in 1..Len(SelectSeq([i \in RecordIndices |-> i],
                                   LAMBDA i : ExpectedGroup(i) = treemapData.children[g].id))
                             |-> ExpectedLabel(
                                   SelectSeq([i \in RecordIndices |-> i],
                                       LAMBDA i : ExpectedGroup(i) =
                                                  treemapData.children[g].id)[k])])

(* C8, for labels and groups that are neither keys of Object.prototype nor  *)
(* canonical array indices.                                                 *)
C8_OrderOfOtherKeys == (Aggregated /\ PlainKeys /\ NoIndexKeys) => C8_FirstSeenOrder

(* C10: with a group field, the leaf L of group G holds the sum of          *)
(* max(rawValue, 0) over exactly the records of group G and label L, every  *)
(* group node has a leaf, and all leaves together hold the total of all     *)
(* records.                                                                 *)
C10_GroupedTotals ==
    GroupedMode =>
        /\ \A i \in RecordIndices :
               \E g \in 1..Len(treemapData.children) :
                   /\ treemapData.children[g].id = ExpectedGroup(i)
                   /\ \E k \in 1..Len(treemapData.children[g].children) :
                          /\ treemapData.children[g].children[k].id = ExpectedLabel(i)
                          /\ treemapData.children[g].children[k].value =
                                 Num(TotalOf(SameLabel(i) \cap SameGroup(i)))
        /\ \A g \in 1..Len(treemapData.children) :
               Len(treemapData.children[g].children) >= 1
        /\ SumSeq([g \in 1..Len(treemapData.children) |->
                      LeafTotal(treemapData.children[g].children)])
               = TotalOf(RecordIndices)

(* C10, for labels and groups that are not keys of Object.prototype.        *)
C10_PlainKeysGroupedTotals == (Aggregated /\ PlainKeys) => C10_GroupedTotals

(* C9: the tree handed to the renderer is the aggregation of the current    *)
(* record list, field selections and title alone.                           *)
C9_NoStaleTree ==
    (mounted /\ view.kind = "chart") =>
        treemapData =
            TreemapData(records, curLabelField, curValueField, curGroupByField,
                        Title(customPropertyValueByKey), EmptyPrototype).tree

(* C9, as long as nothing was added to Object.prototype.                    *)
C9_NoStaleTreeOnCleanPrototype ==
    (mounted /\ view.kind # "crashed" /\ ObjectPrototype = EmptyPrototype) =>
        treemapData =
            TreemapData(records, curLabelField, curValueField, curGroupByField,
                        Title(customPropertyValueByKey), EmptyPrototype).tree

============================================================================
